---------------------------- MODULE Spec2Model ----------------------------
(***************************************************************************)
(* fast-record: the dataset build pipeline of IDataset::build for the      *)
(* three builders (classifier, similarity, tagging).                       *)
(*                                                                         *)
(* A String of the program is a sequence of one-character strings where    *)
(* the program looks inside it (a line of a file, a text, a label field);  *)
(* a token, a class name or a tag used as a HashMap key is a TLA+ string.  *)
(* A HashMap is a function whose DOMAIN is its key set; a HashSet is a     *)
(* set, iterated in an order the program does not control.                 *)
(***************************************************************************)
EXTENDS Integers, Sequences, FiniteSets, TLC

\* Bounds of the model.
MaxLines == 2
MaxSeqLen == 2
NumWorkers == 2
MaxChunks == 2

\* Program constants.
U8Range == 256
ChunkSize == 100

\* Option and Result: None and Err are the empty sequence, Some(x) and Ok(x)
\* the sequence holding x; unwrap of the empty one is the panic.
None == <<>>
Some(x) == <<x>>
IsSome(o) == o # <<>>
Unwrap(o) == o[1]

Workers == 1..NumWorkers

-----------------------------------------------------------------------------
(* Strings *)

RECURSIVE Join(_)
\* String::from / to_string of a run of characters.
Join(cs) == IF cs = <<>> THEN "" ELSE Head(cs) \o Join(Tail(cs))

\* str::starts_with at offset i (1-based) of s.
MatchAt(s, sep, i) ==
    /\ i + Len(sep) - 1 <= Len(s)
    /\ \A k \in 1..Len(sep) : s[i + k - 1] = sep[k]

\* str::split_once: the text before and after the first occurrence of sep,
\* or None when sep does not occur.
SplitOnce(s, sep) ==
    LET hits == {i \in 1..Len(s) : MatchAt(s, sep, i)}
    IN  IF hits = {} THEN None
        ELSE LET i == CHOOSE h \in hits : \A g \in hits : h <= g
             IN  Some(<<SubSeq(s, 1, i - 1), SubSeq(s, i + Len(sep), Len(s))>>)

RECURSIVE SplitSpace(_)
\* str::split(' '): the pieces between single spaces, empty pieces kept;
\* the empty text yields one empty piece.
SplitSpace(s) ==
    LET cut == SplitOnce(s, <<" ">>)
    IN  IF cut = None THEN <<Join(s)>>
        ELSE <<Join(Unwrap(cut)[1])>> \o SplitSpace(Unwrap(cut)[2])

\* str::chars with to_string on every char: one one-character token each.
Chars(s) == [k \in 1..Len(s) |-> Join(<<s[k]>>)]

\* The tokenizer both init and build_dataset apply to a text.
Tokenize(with_lang_en, s) == IF with_lang_en THEN SplitSpace(s) ELSE Chars(s)

Digits == <<"0", "1", "2", "3", "4", "5", "6", "7", "8", "9">>

DigitValue(c) == (CHOOSE d \in 1..10 : Digits[d] = c) - 1

IsDigit(c) == \E d \in 1..10 : Digits[d] = c

RECURSIVE DigitsValue(_, _)
DigitsValue(s, acc) ==
    IF s = <<>> THEN acc ELSE DigitsValue(Tail(s), 10 * acc + DigitValue(Head(s)))

\* str::parse::<usize>: an optional '+', then one or more decimal digits.
ParseUsize(s) ==
    LET body == IF s # <<>> /\ Head(s) = "+" THEN Tail(s) ELSE s
    IN  IF body = <<>> \/ \E k \in 1..Len(body) : ~IsDigit(body[k]) THEN None
        ELSE Some(DigitsValue(body, 0))

\* str::parse::<u8>: as usize, and an error from 256 on.
ParseU8(s) ==
    LET v == ParseUsize(s)
    IN  IF IsSome(v) /\ Unwrap(v) < U8Range THEN v ELSE None

\* str::parse::<bool>: exactly "true" or "false".
ParseBool(s) ==
    IF Join(s) = "true" THEN Some(TRUE)
    ELSE IF Join(s) = "false" THEN Some(FALSE) ELSE None

\* `as u8` of a usize: the low eight bits.
AsU8(n) == n % U8Range

-----------------------------------------------------------------------------
(* HashMap and Vec *)

EmptyMap == <<>>

\* HashMap::insert: binds k to v, replacing an earlier binding of k.
Insert(m, k, v) == (k :> v) @@ m

\* HashMap::get(k).unwrap_or(d)
GetOr(m, k, d) == IF k \in DOMAIN m THEN m[k] ELSE d

\* The orders in which a HashSet of these elements can be iterated.
IterOrders(S) ==
    {o \in [1..Cardinality(S) -> S] : \A i, j \in DOMAIN o : i # j => o[i] # o[j]}

Range(s) == {s[i] : i \in DOMAIN s}

RECURSIVE Flatten(_)
Flatten(ss) == IF ss = <<>> THEN <<>> ELSE Head(ss) \o Flatten(Tail(ss))

\* vec![0usize; n]
Zeros(n) == [k \in 1..n |-> 0]


RECURSIVE InsertIndexed(_, _, _)
\* .enumerate().for_each(|(i, key)| map.insert(key, i + first)) over the
\* keys in the order the iterator yields them.
InsertIndexed(m, keys, first) ==
    IF keys = <<>> THEN m
    ELSE InsertIndexed(Insert(m, Head(keys), first), Tail(keys), first + 1)

-----------------------------------------------------------------------------
(* Records: ClassifierRecord::new, SimilarityRecord::new, TaggingRecord::new *)

\* ClassifierRecord::new without the split_off of the ids beyond max_length.
ClassifierRecordNewUncut(word_ids, label_id, max_length) ==
    [word_ids |->
        IF Len(word_ids) < max_length
        THEN word_ids \o Zeros(max_length - Len(word_ids))
        ELSE word_ids,
     label_id |-> label_id]

ClassifierRecordNew(word_ids, label_id, max_length) ==
    [word_ids |->
        IF Len(word_ids) > max_length THEN SubSeq(word_ids, 1, max_length)
        ELSE IF Len(word_ids) < max_length
             THEN word_ids \o Zeros(max_length - Len(word_ids))
             ELSE word_ids,
     label_id |-> label_id]

SimilarityRecordNew(front_word_ids, back_word_ids, label, max_length) ==
    LET front_length == Len(front_word_ids)
        back_length == Len(back_word_ids)
    IN  [front_word_ids |->
            IF front_length > max_length THEN SubSeq(front_word_ids, 1, max_length)
            ELSE IF front_length < max_length
                 THEN front_word_ids \o Zeros(max_length - front_length)
                 ELSE front_word_ids,
         back_word_ids |->
            IF back_length > max_length THEN SubSeq(back_word_ids, 1, max_length)
            ELSE IF back_length < max_length
                 THEN back_word_ids \o Zeros(max_length - back_length)
                 ELSE back_word_ids,
         label |-> label]

\* TaggingRecord::new cutting the way the other two records do.
TaggingRecordNewCut(token_ids, tag_ids, max_length) ==
    IF Len(token_ids) > max_length
    THEN Some([token_ids |-> SubSeq(token_ids, 1, max_length),
               tag_ids |-> SubSeq(tag_ids, 1, max_length)])
    ELSE LET length == Len(token_ids)
         IN  Some([token_ids |-> token_ids \o Zeros(max_length - length),
                   tag_ids |-> tag_ids \o Zeros(max_length - length)])

\* TaggingRecord::new filling up the token ids only.
TaggingRecordNewTokensOnly(token_ids, tag_ids, max_length) ==
    IF Len(token_ids) > max_length THEN None
    ELSE Some([token_ids |-> token_ids \o Zeros(max_length - Len(token_ids)),
               tag_ids |-> tag_ids])

\* None is the panic "max length is less then current length".
TaggingRecordNew(token_ids, tag_ids, max_length) ==
    IF Len(token_ids) > max_length THEN None
    ELSE IF Len(token_ids) < max_length
         THEN LET length == Len(token_ids)
              IN  Some([token_ids |-> token_ids \o Zeros(max_length - length),
                        tag_ids |-> tag_ids \o Zeros(max_length - length)])
         ELSE Some([token_ids |-> token_ids, tag_ids |-> tag_ids])

-----------------------------------------------------------------------------
(* read_dataset: the closure applied to one line *)

\* read_dataset keeping a line without separator as a text with no label.
ClassifierParseLineLenient(a, line) ==
    LET cut == SplitOnce(line, a.separator)
    IN  IF cut = None THEN Some([sent |-> line, label |-> <<>>])
        ELSE Some([sent |-> Unwrap(cut)[1], label |-> Unwrap(cut)[2]])

\* ClassifierBuilder::read_dataset: split_once(separator), unwrap.
ClassifierParseLine(a, line) ==
    LET cut == SplitOnce(line, a.separator)
    IN  IF cut = None THEN None
        ELSE Some([sent |-> Unwrap(cut)[1], label |-> Unwrap(cut)[2]])

\* SimilarityBuilder::read_dataset: split_once(label_sep), then
\* split_once(sent_sep) on the context, then the label parsed as bool or u8.
SimilarityParseLine(a, line) ==
    LET cut == SplitOnce(line, a.label_sep)
    IN  IF cut = None THEN None
        ELSE LET context == Unwrap(cut)[1]
                 label == Unwrap(cut)[2]
                 item == SplitOnce(context, a.sent_sep)
                 label_id == IF a.with_bool
                             THEN LET tag == ParseBool(label)
                                  IN  IF tag = None THEN None
                                      ELSE Some(IF Unwrap(tag) THEN 1 ELSE 0)
                             ELSE ParseU8(label)
             IN  IF item = None \/ label_id = None THEN None
                 ELSE Some([sent_a |-> Unwrap(item)[1],
                            sent_b |-> Unwrap(item)[2],
                            label |-> Unwrap(label_id)])

\* TaggingBuilder::read_dataset on one token/tag line.
TaggingParseLine(a, line) ==
    LET cut == SplitOnce(line, a.separator)
    IN  IF cut = None THEN None
        ELSE Some(<<Join(Unwrap(cut)[1]), Join(Unwrap(cut)[2])>>)

\* slice::split(|s| s.is_empty()): the runs of lines between empty lines,
\* empty runs kept: one run more than there are empty lines, so no lines at
\* all yield one empty run. Run g lies between the empty lines g-1 and g,
\* the start and the end of the lines counting as such.
SplitEmpty(lines) ==
    LET blanks == {i \in 1..Len(lines) : lines[i] = <<>>}
        cuts == blanks \cup {0, Len(lines) + 1}
        cut(g) == CHOOSE b \in cuts : Cardinality({c \in cuts : c < b}) = g
    IN  [g \in 1..(Cardinality(blanks) + 1) |->
            SubSeq(lines, cut(g - 1) + 1, cut(g) - 1)]

\* One group of lines unzipped into a TaggingSample; None when a line of the
\* group has no separator.
TaggingGroup(a, group) ==
    LET pairs == [k \in DOMAIN group |-> TaggingParseLine(a, group[k])]
    IN  IF \E k \in DOMAIN pairs : pairs[k] = None THEN None
        ELSE Some([tokens |-> [k \in DOMAIN pairs |-> Unwrap(pairs[k])[1]],
                   tags |-> [k \in DOMAIN pairs |-> Unwrap(pairs[k])[2]]])

\* TaggingBuilder::read_dataset, sequential: None when some line panics.
TaggingReadDataset(a, lines) ==
    LET groups == SplitEmpty(lines)
        parsed == [g \in DOMAIN groups |-> TaggingGroup(a, groups[g])]
    IN  IF \E g \in DOMAIN parsed : parsed[g] = None THEN None
        ELSE Some([g \in DOMAIN parsed |-> Unwrap(parsed[g])])

\* The closure of read_dataset for the builder at hand.
ParseLine(a, line) ==
    IF a.task = "classifier" THEN ClassifierParseLine(a, line)
    ELSE SimilarityParseLine(a, line)

-----------------------------------------------------------------------------
(* init: stopwords, classes, vocabulary, tags *)

\* The local HashSet `vocab` of init: the distinct tokens of the training
\* samples.
ClassifierTrainTokens(a, train_samples) ==
    UNION {Range(Tokenize(a.with_lang_en, train_samples[k].sent)) :
              k \in DOMAIN train_samples}

SimilarityTrainTokens(a, train_samples) ==
    UNION {Range(Tokenize(a.with_lang_en, train_samples[k].sent_a))
              \cup Range(Tokenize(a.with_lang_en, train_samples[k].sent_b)) :
              k \in DOMAIN train_samples}

TaggingTrainTokens(train_samples) ==
    UNION {Range(train_samples[k].tokens) : k \in DOMAIN train_samples}

\* The local HashSet `tags` of TaggingBuilder::init.
TaggingTrainTags(train_samples) ==
    UNION {Range(train_samples[k].tags) : k \in DOMAIN train_samples}

TrainTokens(a, train_samples) ==
    IF a.task = "classifier" THEN ClassifierTrainTokens(a, train_samples)
    ELSE IF a.task = "similarity" THEN SimilarityTrainTokens(a, train_samples)
    ELSE TaggingTrainTokens(train_samples)

\* self.stopwords once the optional stopwords file is read.
LoadStopwords(a, f) ==
    IF a.stopwords_file THEN {Join(f.stopwords[k]) : k \in DOMAIN f.stopwords}
    ELSE {}

\* self.classes: every line of class.txt bound to its index.
LoadClasses(f) ==
    InsertIndexed(EmptyMap, [k \in DOMAIN f.class |-> Join(f.class[k])], 0)

\* init keeping no more training tokens than max_vocab_size.
InitVocabCapped(a, stop, order) ==
    LET padded == Insert(EmptyMap, a.padding, 0)
        kept == SelectSeq(order, LAMBDA word : word \notin stop)
        capped == SubSeq(kept, 1, IF Len(kept) < a.max_vocab_size
                                  THEN Len(kept) ELSE a.max_vocab_size)
        filled == InsertIndexed(padded, capped, 1)
        len == Cardinality(DOMAIN filled)
    IN  Insert(filled, a.unknown, len)

\* self.vocab at the end of init, `order` being the order in which the
\* HashSet of training tokens is iterated.
InitVocab(a, stop, order) ==
    LET padded == Insert(EmptyMap, a.padding, 0)
        kept == SelectSeq(order, LAMBDA word : word \notin stop)
        filled == InsertIndexed(padded, kept, 1)
        len == Cardinality(DOMAIN filled)
    IN  Insert(filled, a.unknown, len)

\* self.tags at the end of TaggingBuilder::init.
InitTags(a, order) ==
    InsertIndexed(Insert(EmptyMap, a.padding_tag, 0), order, 1)

-----------------------------------------------------------------------------
(* build_dataset: the closure applied to one sample *)

\* The lookup with a miss resolved to the padding id.
WordIdsMissZero(v, unk_id, tokens) ==
    [k \in DOMAIN tokens |-> GetOr(v, tokens[k], 0)]

\* tokens.map(|t| vocab.get(t).unwrap_or(unk_id)).collect()
WordIds(v, unk_id, tokens) ==
    [k \in DOMAIN tokens |-> GetOr(v, tokens[k], unk_id)]

\* build_dataset giving a label it cannot resolve the id 0.
ClassifierEncodeDefaultZero(a, v, cls, sample) ==
    LET unk_id == v[a.unknown]
        word_ids == WordIds(v, unk_id, Tokenize(a.with_lang_en, sample.sent))
        id == IF a.with_label_id THEN ParseUsize(sample.label)
              ELSE IF Join(sample.label) \in DOMAIN cls
                   THEN Some(cls[Join(sample.label)]) ELSE None
    IN  Some(ClassifierRecordNew(word_ids, IF id = None THEN 0 ELSE Unwrap(id),
                                 a.sequence_length))

\* None is the panic of label.parse().unwrap() or classes.get(..).unwrap().
ClassifierEncode(a, v, cls, sample) ==
    LET unk_id == v[a.unknown]
        word_ids == WordIds(v, unk_id, Tokenize(a.with_lang_en, sample.sent))
    IN  IF a.with_label_id
        THEN LET id == ParseUsize(sample.label)
             IN  IF id = None THEN None
                 ELSE Some(ClassifierRecordNew(word_ids, Unwrap(id),
                                               a.sequence_length))
        ELSE IF Join(sample.label) \in DOMAIN cls
             THEN Some(ClassifierRecordNew(word_ids, cls[Join(sample.label)],
                                           a.sequence_length))
             ELSE None

SimilarityEncode(a, v, sample) ==
    LET unk_id == v[a.unknown]
        text_a_ids == WordIds(v, unk_id, Tokenize(a.with_lang_en, sample.sent_a))
        text_b_ids == WordIds(v, unk_id, Tokenize(a.with_lang_en, sample.sent_b))
    IN  Some(SimilarityRecordNew(text_a_ids, text_b_ids, sample.label,
                                 a.sequence_length))

TaggingEncode(a, v, tgs, sample) ==
    LET unk_id == v[a.unknown]
        word_ids == WordIds(v, unk_id, sample.tokens)
        tag_ids == [k \in DOMAIN sample.tags |-> GetOr(tgs, sample.tags[k], 0)]
    IN  TaggingRecordNew(word_ids, tag_ids, a.sequence_length)

Encode(a, v, cls, tgs, sample) ==
    IF a.task = "classifier" THEN ClassifierEncode(a, v, cls, sample)
    ELSE IF a.task = "similarity" THEN SimilarityEncode(a, v, sample)
    ELSE TaggingEncode(a, v, tgs, sample)

-----------------------------------------------------------------------------
(* save_dataset: one chunk of records as the columns of a batch *)

RECURSIVE ChunksExact(_, _)
\* slice::chunks_exact(n): the whole chunks only.
ChunksExact(records, n) ==
    IF Len(records) < n THEN <<>>
    ELSE <<SubSeq(records, 1, n)>>
             \o ChunksExact(SubSeq(records, n + 1, Len(records)), n)

RECURSIVE Chunks(_, _)
\* slice::chunks(n)
Chunks(records, n) ==
    IF records = <<>> THEN <<>>
    ELSE IF Len(records) <= n THEN <<records>>
    ELSE <<SubSeq(records, 1, n)>> \o Chunks(SubSeq(records, n + 1, Len(records)), n)

\* word_0 .. word_{L-1}, class
ClassifierBatch(a, chunk) ==
    [i \in 1..(a.sequence_length + 1) |->
        IF i <= a.sequence_length
        THEN [r \in DOMAIN chunk |-> chunk[r].word_ids[i]]
        ELSE [r \in DOMAIN chunk |-> AsU8(chunk[r].label_id)]]

\* text_a_0 .. text_a_{L-1}, text_b_0 .. text_b_{L-1}, label
SimilarityBatch(a, chunk) ==
    [i \in 1..(2 * a.sequence_length + 1) |->
        IF i <= a.sequence_length
        THEN [r \in DOMAIN chunk |-> chunk[r].front_word_ids[i]]
        ELSE IF i <= 2 * a.sequence_length
             THEN [r \in DOMAIN chunk |->
                      chunk[r].back_word_ids[i - a.sequence_length]]
             ELSE [r \in DOMAIN chunk |-> chunk[r].label]]

\* word_0, tag_0, word_1, tag_1, ..
TaggingBatch(a, chunk) ==
    [i \in 1..(2 * a.sequence_length) |->
        IF i % 2 = 1
        THEN [r \in DOMAIN chunk |-> chunk[r].token_ids[(i + 1) \div 2]]
        ELSE [r \in DOMAIN chunk |-> AsU8(chunk[r].tag_ids[i \div 2])]]

Batch(a, chunk) ==
    IF a.task = "classifier" THEN ClassifierBatch(a, chunk)
    ELSE IF a.task = "similarity" THEN SimilarityBatch(a, chunk)
    ELSE TaggingBatch(a, chunk)

-----------------------------------------------------------------------------
(* The build: IDataset::build run by main for the chosen builder *)

VARIABLES
    args,        \* the parsed command line of the subcommand
    fs,          \* the input files: train, dev, test, class, stopwords
    pc,          \* where build is: read, init, build, save_vocab, save, done, panic
    split,       \* the split being read, built or saved: 1 train, 2 dev, 3 test
    stopwords,   \* self.stopwords
    classes,     \* self.classes
    vocab,       \* self.vocab
    tags,        \* self.tags
    samples,     \* train_samples, dev_samples, test_samples (None until read)
    records,     \* train_records, dev_records, test_records (None until built)
    next_line,   \* the position of the shared lines() iterator under par_bridge
    local,       \* the samples each worker of the read phase has folded so far
    slots,       \* the positions of the vector build_dataset collects into
    vocab_file,  \* the lines of vocab.txt
    out,         \* the three record files
    cursor       \* the chunks of the current split written so far

vars == <<args, fs, pc, split, stopwords, classes, vocab, tags, samples,
          records, next_line, local, slots, vocab_file, out, cursor>>

\* The file read_dataset opens for a split.
SplitFile(f, s) == IF s = 1 THEN f.train ELSE IF s = 2 THEN f.dev ELSE f.test

\* An unordered collect: the result goes to the first free place.
StoreAtFirstFree(sl, i, r) ==
    [sl EXCEPT ![CHOOSE j \in DOMAIN sl :
                     sl[j] = None /\ \A k \in DOMAIN sl : sl[k] = None => j <= k]
                  = Some(r)]

\* The place of the result of sample i in the collected vector: into_par_iter
\* on a Vec is indexed, and collect keeps every result at its sample's index.
StoreAt(sl, i, r) == [sl EXCEPT ![i] = Some(r)]

\* collect() of the unindexed par_bridge iterator: the vectors the workers
\* folded, appended one after the other.
CollectBridge(loc) == Flatten([w \in Workers |-> loc[w]])

EmptySlots(n) == [i \in 1..n |-> None]

InitOf(inputs) ==
    /\ \E in \in inputs : args = in.args /\ fs = in.fs
    /\ pc = "read"
    /\ split = 1
    /\ stopwords = {}
    /\ classes = EmptyMap
    /\ vocab = EmptyMap
    /\ tags = EmptyMap
    /\ samples = [s \in 1..3 |-> None]
    /\ records = [s \in 1..3 |-> None]
    /\ next_line = 1
    /\ local = [w \in Workers |-> <<>>]
    /\ slots = <<>>
    /\ vocab_file = {}
    /\ out = [s \in 1..3 |-> [state |-> "absent", batches |-> <<>>]]
    /\ cursor = 0

\* A worker of the read phase takes the next line of the shared iterator and
\* maps it; a line the closure cannot unwrap panics the build.
PullLine(w) ==
    /\ pc = "read"
    /\ args.task # "tagging"
    /\ next_line <= Len(SplitFile(fs, split))
    /\ LET parsed == ParseLine(args, SplitFile(fs, split)[next_line])
       IN  IF parsed = None
           THEN /\ pc' = "panic"
                /\ UNCHANGED <<next_line, local>>
           ELSE /\ local' = [local EXCEPT ![w] = Append(@, Unwrap(parsed))]
                /\ next_line' = next_line + 1
                /\ pc' = pc
    /\ UNCHANGED <<args, fs, split, stopwords, classes, vocab, tags, samples,
                   records, slots, vocab_file, out, cursor>>

\* The iterator is exhausted: read_dataset returns the collected samples.
ReadCollect ==
    /\ pc = "read"
    /\ args.task # "tagging"
    /\ next_line > Len(SplitFile(fs, split))
    /\ samples' = [samples EXCEPT ![split] = Some(CollectBridge(local))]
    /\ slots' = EmptySlots(Len(CollectBridge(local)))
    /\ pc' = IF split = 1 THEN "init" ELSE "build"
    /\ UNCHANGED <<args, fs, split, stopwords, classes, vocab, tags, records,
                   next_line, local, vocab_file, out, cursor>>

\* TaggingBuilder::read_dataset, on the control thread.
TaggingRead ==
    /\ pc = "read"
    /\ args.task = "tagging"
    /\ LET read == TaggingReadDataset(args, SplitFile(fs, split))
       IN  IF read = None
           THEN /\ pc' = "panic"
                /\ UNCHANGED <<samples, slots>>
           ELSE /\ samples' = [samples EXCEPT ![split] = read]
                /\ slots' = EmptySlots(Len(Unwrap(read)))
                /\ pc' = IF split = 1 THEN "init" ELSE "build"
    /\ UNCHANGED <<args, fs, split, stopwords, classes, vocab, tags, records,
                   next_line, local, vocab_file, out, cursor>>

\* init(&train_samples)
BuilderInit ==
    /\ pc = "init"
    /\ LET stop == LoadStopwords(args, fs)
       IN  /\ stopwords' = stop
           /\ \E order \in IterOrders(TrainTokens(args, Unwrap(samples[1]))) :
                 vocab' = InitVocab(args, stop, order)
    /\ classes' = IF args.task = "classifier" THEN LoadClasses(fs) ELSE classes
    /\ IF args.task = "tagging"
       THEN \E order \in IterOrders(TaggingTrainTags(Unwrap(samples[1]))) :
               tags' = InitTags(args, order)
       ELSE tags' = tags
    /\ pc' = "build"
    /\ UNCHANGED <<args, fs, split, samples, records, next_line, local, slots,
                   vocab_file, out, cursor>>

\* A worker of build_dataset encodes one sample not encoded yet; a panic of
\* the closure panics the build.
EncodeSample(i) ==
    /\ pc = "build"
    /\ i \in DOMAIN slots
    /\ slots[i] = None
    /\ LET record == Encode(args, vocab, classes, tags, Unwrap(samples[split])[i])
       IN  IF record = None
           THEN /\ pc' = "panic"
                /\ slots' = slots
           ELSE /\ slots' = StoreAt(slots, i, Unwrap(record))
                /\ pc' = pc
    /\ UNCHANGED <<args, fs, split, stopwords, classes, vocab, tags, samples,
                   records, next_line, local, vocab_file, out, cursor>>

\* build serializing the records of a split as soon as they are built.
BuildCollectEager ==
    /\ pc = "build"
    /\ \A i \in DOMAIN slots : slots[i] # None
    /\ records' = [records EXCEPT ![split] =
                      Some([i \in DOMAIN slots |-> Unwrap(slots[i])])]
    /\ out' = [out EXCEPT ![split] =
                  [state |-> "finished",
                   batches |-> [b \in DOMAIN Chunks(Unwrap(records'[split]), ChunkSize) |->
                                   Batch(args, Chunks(Unwrap(records'[split]), ChunkSize)[b])]]]
    /\ slots' = <<>>
    /\ IF split < 3
       THEN /\ pc' = "read"
            /\ split' = split + 1
       ELSE /\ pc' = "done"
            /\ split' = split
    /\ next_line' = 1
    /\ local' = [w \in Workers |-> <<>>]
    /\ UNCHANGED <<args, fs, stopwords, classes, vocab, tags, samples,
                   vocab_file, cursor>>

\* Every sample is encoded: build_dataset returns, and build goes on to read
\* the next split or, after test, to save.
BuildCollect ==
    /\ pc = "build"
    /\ \A i \in DOMAIN slots : slots[i] # None
    /\ records' = [records EXCEPT ![split] =
                      Some([i \in DOMAIN slots |-> Unwrap(slots[i])])]
    /\ slots' = <<>>
    /\ IF split < 3
       THEN /\ pc' = "read"
            /\ split' = split + 1
       ELSE /\ pc' = "save_vocab"
            /\ split' = split
    /\ next_line' = 1
    /\ local' = [w \in Workers |-> <<>>]
    /\ UNCHANGED <<args, fs, stopwords, classes, vocab, tags, samples,
                   vocab_file, out, cursor>>

\* save_vocab: one line "id<TAB>token" per entry, in the map's iteration order.
SaveVocab ==
    /\ pc = "save_vocab"
    /\ vocab_file' = {<<vocab[word], word>> : word \in DOMAIN vocab}
    /\ pc' = "save"
    /\ split' = 1
    /\ cursor' = 0
    /\ UNCHANGED <<args, fs, stopwords, classes, vocab, tags, samples, records,
                   next_line, local, slots, out>>

\* save_dataset: File::create and FileWriter::try_new.
SaveCreate ==
    /\ pc = "save"
    /\ out[split].state = "absent"
    /\ out' = [out EXCEPT ![split].state = "open"]
    /\ UNCHANGED <<args, fs, pc, split, stopwords, classes, vocab, tags, samples,
                   records, next_line, local, slots, vocab_file, cursor>>

\* save_dataset: the next chunk of the records written as one batch.
SaveWrite ==
    /\ pc = "save"
    /\ out[split].state = "open"
    /\ cursor < Len(Chunks(Unwrap(records[split]), ChunkSize))
    /\ out' = [out EXCEPT ![split].batches =
                  Append(@, Batch(args, Chunks(Unwrap(records[split]), ChunkSize)[cursor + 1]))]
    /\ cursor' = cursor + 1
    /\ UNCHANGED <<args, fs, pc, split, stopwords, classes, vocab, tags, samples,
                   records, next_line, local, slots, vocab_file>>

\* save_dataset: writer.finish() after the last chunk.
SaveFinish ==
    /\ pc = "save"
    /\ out[split].state = "open"
    /\ cursor = Len(Chunks(Unwrap(records[split]), ChunkSize))
    /\ out' = [out EXCEPT ![split].state = "finished"]
    /\ cursor' = 0
    /\ IF split < 3
       THEN /\ split' = split + 1
            /\ pc' = pc
       ELSE /\ split' = split
            /\ pc' = "done"
    /\ UNCHANGED <<args, fs, stopwords, classes, vocab, tags, samples, records,
                   next_line, local, slots, vocab_file>>

Next ==
    \/ \E w \in Workers : PullLine(w)
    \/ ReadCollect
    \/ TaggingRead
    \/ BuilderInit
    \/ \E i \in DOMAIN slots : EncodeSample(i)
    \/ BuildCollect
    \/ SaveVocab
    \/ SaveCreate
    \/ SaveWrite
    \/ SaveFinish

-----------------------------------------------------------------------------
(* Inputs: command lines and input directories *)

\* The files of at most n lines over the given lines.
Files(lines, n) == UNION {[1..k -> lines] : k \in 0..n}

\* The defaults clap gives the options (sequence_length is 32 by default and
\* is always set here).
DefaultArgs(task, sequence_length) ==
    [task |-> task,
     max_vocab_size |-> 10000,
     sequence_length |-> sequence_length,
     stopwords_file |-> FALSE,
     with_label_id |-> FALSE,
     with_bool |-> FALSE,
     with_lang_en |-> FALSE,
     separator |-> <<"\t">>,
     sent_sep |-> <<"\t">>,
     label_sep |-> <<"\t">>,
     unknown |-> "<UNK>",
     padding |-> "<PAD>",
     padding_tag |-> "None"]

\* An input directory.
Dir(train, dev, test, class, stop) ==
    [train |-> train, dev |-> dev, test |-> test, class |-> class,
     stopwords |-> stop]

Input(a, f) == [args |-> a, fs |-> f]

ClassFile == << <<"p">>, <<"n">> >>

\* Classification, class-list mode: texts of 0, 1, 3 and 5 characters (1, 1,
\* 2 and 3 words), a line without separator, a label class.txt does not list.
ClassifierInputs ==
    {Input([DefaultArgs("classifier", len) EXCEPT !.with_lang_en = en],
           Dir(train, dev, <<<<"a", "\t", "n">>>>, ClassFile, <<>>)) :
        len \in 1..MaxSeqLen,
        en \in BOOLEAN,
        train \in Files({<<"a", "\t", "p">>,
                         <<"a", " ", "a", "\t", "n">>,
                         <<"\t", "p">>}, MaxLines),
        dev \in Files({<<"a", " ", "a", " ", "c", "\t", "p">>,
                       <<"a", "b">>,
                       <<"b", "\t", "x">>}, 1)}

\* Classification, direct-id mode: label ids below and above the u8 range and
\* a label that is no integer.
LabelIdInputs ==
    {Input([DefaultArgs("classifier", MaxSeqLen) EXCEPT !.with_label_id = TRUE],
           Dir(train, dev, <<>>, ClassFile, <<>>)) :
        train \in Files({<<"a", "\t", "1">>,
                         <<"b", "\t", "2", "5", "7">>}, MaxLines),
        dev \in Files({<<"a", "\t", "2", "5", "6">>, <<"a", "\t", "x">>}, 1)}

\* Similarity with a sentence separator of its own and integer labels: a dev
\* line without sentence separator, one without label separator.
SimilarityInputs ==
    {Input([DefaultArgs("similarity", len) EXCEPT !.with_lang_en = en,
                                                   !.sent_sep = <<",">>],
           Dir(train, dev, <<<<"a", ",", "c", "\t", "0">>>>, <<>>, <<>>)) :
        len \in 1..MaxSeqLen,
        en \in BOOLEAN,
        train \in Files({<<"a", ",", "a", "\t", "1">>,
                         <<"a", " ", "a", ",", "\t", "0">>}, MaxLines),
        dev \in Files({<<"c", " ", "a", " ", "a", ",", "a", "\t", "1">>,
                       <<"a", "b", "\t", "1">>,
                       <<"a", ",", "b">>}, 1)}

\* Similarity with boolean labels, and a label that is no boolean.
BoolLabelInputs ==
    {Input([DefaultArgs("similarity", MaxSeqLen) EXCEPT !.with_bool = TRUE,
                                                         !.sent_sep = <<",">>],
           Dir(train, dev, <<>>, <<>>, <<>>)) :
        train \in Files({<<"a", ",", "b", "\t", "t", "r", "u", "e">>,
                         <<"b", ",", "a", "\t", "f", "a", "l", "s", "e">>}, MaxLines),
        dev \in Files({<<"a", ",", "b", "\t", "1">>}, 1)}

\* Tagging: groups of up to MaxLines token/tag lines, blank lines, a line
\* without separator, a token and a tag the training split does not hold.
TaggingInputs ==
    {Input(DefaultArgs("tagging", len),
           Dir(train, dev, <<<<"a", "\t", "B">>>>, <<>>, <<>>)) :
        len \in 1..MaxSeqLen,
        train \in Files({<<"a", "\t", "O">>, <<"b", "\t", "B">>, <<>>}, MaxLines),
        dev \in Files({<<"c", "\t", "I">>, <<"a", "b">>}, 1)}

\* Similarity as configured by default, both separators a tab.
DefaultSepInputs ==
    {Input(DefaultArgs("similarity", MaxSeqLen),
           Dir(train, <<>>, <<>>, <<>>, <<>>)) :
        train \in Files({<<"a", "\t", "b", "\t", "1">>}, 1)}

BuildInputs ==
    ClassifierInputs \cup LabelIdInputs \cup SimilarityInputs
        \cup BoolLabelInputs \cup TaggingInputs \cup DefaultSepInputs

Init == InitOf(BuildInputs)

Spec == Init /\ [][Next]_vars

StopFile == << <<"a">> >>

\* Vocabulary cases: the padding and unknown tokens as configured by default
\* or as strings that are tokens of the training data, with and without a
\* stopwords file, with the default max_vocab_size and one smaller than the
\* number of training tokens; dev and test hold a token the training split
\* lacks.
VocabClassifierInputs ==
    {Input([DefaultArgs("classifier", MaxSeqLen) EXCEPT !.with_lang_en = en,
                                                         !.max_vocab_size = cap,
                                                         !.padding = pad,
                                                         !.unknown = unk,
                                                         !.stopwords_file = stop],
           Dir(train, <<<<"b", " ", "c", "\t", "p">>>>, <<<<"b", "\t", "n">>>>,
               ClassFile, StopFile)) :
        en \in BOOLEAN,
        cap \in {1, 10000},
        pad \in {"<PAD>", "a"},
        unk \in {"<UNK>", "b"},
        stop \in BOOLEAN,
        train \in Files({<<"a", "\t", "p">>,
                         <<"a", " ", "b", "\t", "n">>}, MaxLines)}

VocabSimilarityInputs ==
    {Input([DefaultArgs("similarity", MaxSeqLen) EXCEPT !.with_lang_en = TRUE,
                                                         !.sent_sep = <<",">>,
                                                         !.padding = pad,
                                                         !.unknown = unk,
                                                         !.stopwords_file = stop],
           Dir(train, <<<<"a", ",", "c", "\t", "1">>>>, <<>>, <<>>, StopFile)) :
        pad \in {"<PAD>", "a"},
        unk \in {"<UNK>", "b"},
        stop \in BOOLEAN,
        train \in Files({<<"a", ",", "b", "\t", "1">>,
                         <<"b", ",", "d", "\t", "0">>}, MaxLines)}

VocabTaggingInputs ==
    {Input([DefaultArgs("tagging", MaxSeqLen) EXCEPT !.padding = pad,
                                                      !.unknown = unk,
                                                      !.padding_tag = ptag,
                                                      !.stopwords_file = stop],
           Dir(train, <<<<"a", "\t", "I">>, <<"c", "\t", "O">>>>, <<>>, <<>>,
               StopFile)) :
        pad \in {"<PAD>", "a"},
        unk \in {"<UNK>", "b"},
        ptag \in {"None", "O"},
        stop \in BOOLEAN,
        train \in Files({<<"a", "\t", "O">>, <<"b", "\t", "B">>}, MaxLines)}

VocabInputs == VocabClassifierInputs \cup VocabSimilarityInputs \cup VocabTaggingInputs

InitVocabCases == InitOf(VocabInputs)

SpecVocab == InitVocabCases /\ [][Next]_vars

-----------------------------------------------------------------------------
(* The save phase on record lists longer than a chunk *)

RECURSIVE Decimal(_)
\* The decimal digits of n.
Decimal(n) ==
    IF n < 10 THEN <<Digits[n + 1]>>
    ELSE Decimal(n \div 10) \o <<Digits[(n % 10) + 1]>>

\* A classification file of n lines, line i labelled with the id i.
NumberedFile(n) == [i \in 1..n |-> <<"a", "\t">> \o Decimal(i)]

\* A tagging file of n >= 1 groups of one token/tag line each, a blank line
\* between two groups.
GroupedFile(n) ==
    [k \in 1..(2 * n - 1) |->
        IF k % 2 = 0 THEN <<>>
        ELSE <<(<<"a", "b", "c">>)[(k % 3) + 1], "\t", (<<"O", "B">>)[(((k + 1) \div 2) % 2) + 1]>>]

\* The numbers of records around the chunk size.
SaveSizes ==
    {0, 1, ChunkSize - 1, ChunkSize, ChunkSize + 1,
     MaxChunks * ChunkSize, MaxChunks * ChunkSize + 1}

SaveInputs ==
    {Input([DefaultArgs("classifier", MaxSeqLen) EXCEPT !.with_label_id = TRUE],
           Dir(NumberedFile(n), NumberedFile(m), NumberedFile(1), ClassFile, <<>>)) :
        n \in SaveSizes, m \in {0, ChunkSize + 1}}
    \cup
    {Input(DefaultArgs("tagging", MaxSeqLen),
           Dir(GroupedFile(n), GroupedFile(1), GroupedFile(1), <<>>, <<>>)) :
        n \in {1, ChunkSize, ChunkSize + 1}}

\* read_dataset of a split when the lines are mapped in the order of the file.
ReadInOrder(a, file) ==
    IF a.task = "tagging" THEN Unwrap(TaggingReadDataset(a, file))
    ELSE [i \in DOMAIN file |-> Unwrap(ParseLine(a, file[i]))]

\* build at the call of save_vocab: the three splits are read and encoded.
InitSave ==
    /\ \E in \in SaveInputs : args = in.args /\ fs = in.fs
    /\ pc = "save_vocab"
    /\ split = 3
    /\ stopwords = LoadStopwords(args, fs)
    /\ classes = IF args.task = "classifier" THEN LoadClasses(fs) ELSE EmptyMap
    /\ samples = [s \in 1..3 |-> Some(ReadInOrder(args, SplitFile(fs, s)))]
    /\ \E order \in IterOrders(TrainTokens(args, Unwrap(samples[1]))) :
          vocab = InitVocab(args, stopwords, order)
    /\ IF args.task = "tagging"
       THEN \E order \in IterOrders(TaggingTrainTags(Unwrap(samples[1]))) :
               tags = InitTags(args, order)
       ELSE tags = EmptyMap
    /\ records = [s \in 1..3 |->
                     Some([i \in DOMAIN Unwrap(samples[s]) |->
                              Unwrap(Encode(args, vocab, classes, tags,
                                            Unwrap(samples[s])[i]))])]
    /\ next_line = 1
    /\ local = [w \in Workers |-> <<>>]
    /\ slots = <<>>
    /\ vocab_file = {}
    /\ out = [s \in 1..3 |-> [state |-> "absent", batches |-> <<>>]]
    /\ cursor = 0

\* The steps of build from save_vocab on.
NextSave ==
    \/ SaveVocab
    \/ SaveCreate
    \/ SaveWrite
    \/ SaveFinish

SpecSave == InitSave /\ [][NextSave]_vars

-----------------------------------------------------------------------------
(* Properties *)

\* init has run: the vocabulary holds at least the padding token.
Inited == DOMAIN vocab # {}

\* The ids build_dataset looks up for a text, before the record fixes their
\* number.
LookupIds(text) ==
    WordIds(vocab, vocab[args.unknown], Tokenize(args.with_lang_en, text))

\* r is ids cut or zero-filled at the tail to exactly len entries.
FixedTo(r, ids, len) ==
    /\ Len(r) = len
    /\ \A k \in 1..len : r[k] = IF k <= Len(ids) THEN ids[k] ELSE 0

\* The id sequences looked up for sample i of split s (one for
\* classification, front and back for similarity).
InputIds(s, i) ==
    LET sample == Unwrap(samples[s])[i]
    IN  IF args.task = "classifier" THEN <<LookupIds(sample.sent)>>
        ELSE <<LookupIds(sample.sent_a), LookupIds(sample.sent_b)>>

\* The id sequences of record i of split s.
RecordIds(s, i) ==
    LET record == Unwrap(records[s])[i]
    IN  IF args.task = "classifier" THEN <<record.word_ids>>
        ELSE <<record.front_word_ids, record.back_word_ids>>

\* C2: every id sequence of a classification or similarity record has
\* exactly sequence_length entries: the first min(n, sequence_length) of the
\* n ids looked up, in order, then zeros; front and back each on its own.
C2_FixedLength ==
    \A s \in 1..3 :
        args.task # "tagging" /\ records[s] # None =>
            \A i \in DOMAIN Unwrap(records[s]) :
                \A q \in DOMAIN RecordIds(s, i) :
                    FixedTo(RecordIds(s, i)[q], InputIds(s, i)[q],
                            args.sequence_length)

\* Records built from 0 ids, from exactly sequence_length ids and from more.
C2_Witness ==
    /\ args.task # "tagging"
    /\ \A s \in 1..2 : records[s] # None
    /\ \E n \in {0} : \E s \in 1..2 : \E i \in DOMAIN Unwrap(records[s]) :
          Len(InputIds(s, i)[1]) = n
    /\ \E s \in 1..2 : \E i \in DOMAIN Unwrap(records[s]) :
          Len(InputIds(s, i)[1]) = args.sequence_length
    /\ \E s \in 1..2 : \E i \in DOMAIN Unwrap(records[s]) :
          Len(InputIds(s, i)[1]) > args.sequence_length

\* C5: build_dataset returns as many records as it was given samples, the
\* record at position i being the encoding of the sample at position i,
\* whatever the order in which the workers encoded them.
C5_OrderPreserved ==
    \A s \in 1..3 :
        records[s] # None =>
            /\ Len(Unwrap(records[s])) = Len(Unwrap(samples[s]))
            /\ \A i \in DOMAIN Unwrap(records[s]) :
                  Some(Unwrap(records[s])[i])
                      = Encode(args, vocab, classes, tags, Unwrap(samples[s])[i])

\* Two different samples were encoded last sample first, and the records
\* returned differ.
C5_Witness ==
    /\ pc = "build"
    /\ Len(slots) = 2
    /\ slots[1] = None
    /\ slots[2] # None
    /\ Encode(args, vocab, classes, tags, Unwrap(samples[split])[1]) # slots[2]


\* C1: once init has run, the padding token has id 0 and the unknown token
\* the id (vocabulary size - 1).
C1_PadZeroUnkLast ==
    Inited =>
        /\ vocab[args.padding] = 0
        /\ vocab[args.unknown] = Cardinality(DOMAIN vocab) - 1

\* C9: once TaggingBuilder::init has run, the padding tag has id 0, no tag of
\* the training split has id 0, and the distinct training tags have distinct
\* ids that are exactly 1..K.
C9_TagIds ==
    args.task = "tagging" /\ Inited =>
        LET seen == TaggingTrainTags(Unwrap(samples[1]))
        IN  /\ tags[args.padding_tag] = 0
            /\ \A t \in seen : tags[t] # 0
            /\ \A t, u \in seen : t # u => tags[t] # tags[u]
            /\ {tags[t] : t \in seen} = 1..Cardinality(seen)

\* C10: once init has run, the ids of the vocabulary are exactly
\* 0 .. size-1 and no two tokens share an id.
C10_DenseIds ==
    Inited =>
        /\ {vocab[w] : w \in DOMAIN vocab} = 0..(Cardinality(DOMAIN vocab) - 1)
        /\ \A w, u \in DOMAIN vocab : w # u => vocab[w] # vocab[u]


\* Sample i of split s holds more token/tag pairs than sequence_length.
Overlong(s, i) == Len(Unwrap(samples[s])[i].tokens) > args.sequence_length

\* A tagging sample longer than sequence_length has no record: its place in
\* the collected vector stays empty, build_dataset has not returned for its
\* split, and no record file is created.
C3_NoRecord ==
    \A s \in 1..3 :
        args.task = "tagging" /\ samples[s] # None =>
            \A i \in DOMAIN Unwrap(samples[s]) :
                Overlong(s, i) =>
                    /\ pc \in {"init", "build", "panic"}
                    /\ split = s
                    /\ i \in DOMAIN slots
                    /\ slots[i] = None
                    /\ records[s] = None
                    /\ \A t \in 1..3 : out[t] = [state |-> "absent", batches |-> <<>>]

\* build_dataset of a tagging split has only samples longer than
\* sequence_length left to encode.
OnlyOverlongLeft ==
    /\ args.task = "tagging"
    /\ pc = "build"
    /\ \E i \in DOMAIN slots : slots[i] = None
    /\ \A i \in DOMAIN slots : slots[i] = None => Overlong(split, i)

\* C3: a tagging sample longer than sequence_length never gets a record, in
\* memory or in a record file, and the step that encodes it is the panic of
\* the build.
C3_OverlongFails == [](C3_NoRecord) /\ [][OnlyOverlongLeft => pc' = "panic"]_vars

\* The build has panicked in build_dataset of a tagging split that holds a
\* sample longer than sequence_length.
C3_Witness ==
    /\ args.task = "tagging"
    /\ pc = "panic"
    /\ samples[split] # None
    /\ \E i \in DOMAIN Unwrap(samples[split]) : Overlong(split, i)

\* The token sequences of sample i of split s.
SampleTokens(s, i) ==
    LET sample == Unwrap(samples[s])[i]
    IN  IF args.task = "classifier" THEN <<Tokenize(args.with_lang_en, sample.sent)>>
        ELSE IF args.task = "similarity"
             THEN <<Tokenize(args.with_lang_en, sample.sent_a),
                    Tokenize(args.with_lang_en, sample.sent_b)>>
             ELSE <<sample.tokens>>

\* The token id sequences of record i of split s.
TokenIds(s, i) ==
    IF args.task = "tagging" THEN <<Unwrap(records[s])[i].token_ids>>
    ELSE RecordIds(s, i)

\* The positions of a token sequence that the record keeps.
Kept(tokens) ==
    {k \in DOMAIN tokens : k <= args.sequence_length}

\* Every kept token that is a key of the vocabulary has its vocabulary id in
\* the record, every kept token that is no key the unknown id, in all splits.
C4_Lookup ==
    \A s \in 1..3 :
        records[s] # None =>
            \A i \in DOMAIN Unwrap(records[s]) :
                \A q \in DOMAIN SampleTokens(s, i) :
                    \A k \in Kept(SampleTokens(s, i)[q]) :
                        LET token == SampleTokens(s, i)[q][k]
                        IN  TokenIds(s, i)[q][k] =
                                IF token \in DOMAIN vocab THEN vocab[token]
                                ELSE vocab[args.unknown]

\* C4: within one build every occurrence of a vocabulary key is encoded to
\* its vocabulary id in train, dev and test alike, every other token to the
\* unknown id, and no step after init changes the vocabulary.
C4_Encoding == [](C4_Lookup) /\ [][Inited => vocab' = vocab]_vars

\* Dev is encoded and holds a token that is a key (with the id it has in a
\* train record), a token never seen in training and a token that is a
\* stopword of the training split.
C4_Witness ==
    /\ args.padding = "<PAD>"
    /\ args.unknown = "<UNK>"
    /\ records[2] # None
    /\ Len(Unwrap(records[1])) > 0
    /\ Len(Unwrap(records[2])) > 0
    /\ \E q \in DOMAIN SampleTokens(2, 1) : \E k \in Kept(SampleTokens(2, 1)[q]) :
          /\ SampleTokens(2, 1)[q][k] \in DOMAIN vocab
          /\ \E i \in DOMAIN Unwrap(records[1]) :
                \E p \in DOMAIN SampleTokens(1, i) : \E j \in Kept(SampleTokens(1, i)[p]) :
                    /\ SampleTokens(1, i)[p][j] = SampleTokens(2, 1)[q][k]
                    /\ TokenIds(1, i)[p][j] = TokenIds(2, 1)[q][k]
    /\ \E i \in DOMAIN Unwrap(records[2]) :
          \E q \in DOMAIN SampleTokens(2, i) : \E k \in Kept(SampleTokens(2, i)[q]) :
              /\ SampleTokens(2, i)[q][k] \notin DOMAIN vocab
              /\ SampleTokens(2, i)[q][k] \notin stopwords
              /\ TokenIds(2, i)[q][k] = vocab[args.unknown]
    /\ \E i \in DOMAIN Unwrap(records[1]) :
          \E q \in DOMAIN SampleTokens(1, i) : \E k \in Kept(SampleTokens(1, i)[q]) :
              /\ SampleTokens(1, i)[q][k] \notin DOMAIN vocab
              /\ SampleTokens(1, i)[q][k] \in stopwords
              /\ TokenIds(1, i)[q][k] = vocab[args.unknown]


\* C6: read_dataset of the classification and similarity builders returns
\* the samples of the lines of the file in the order of the lines.
C6_ReadInOrder ==
    \A s \in 1..3 :
        args.task # "tagging" /\ samples[s] # None =>
            Unwrap(samples[s]) =
                [i \in DOMAIN SplitFile(fs, s) |->
                    Unwrap(ParseLine(args, SplitFile(fs, s)[i]))]

\* The line holds no separator the builder is configured with. A blank line
\* of a tagging file is the delimiter of two samples, not such a line.
NoSeparator(line) ==
    IF args.task = "similarity"
    THEN SplitOnce(line, args.label_sep) = None \/ SplitOnce(line, args.sent_sep) = None
    ELSE /\ SplitOnce(line, args.separator) = None
         /\ args.task = "tagging" => line # <<>>

\* The file of split s holds a line without separator.
HasBadLine(s) ==
    \E i \in DOMAIN SplitFile(fs, s) : NoSeparator(SplitFile(fs, s)[i])

\* The samples of the lines of split s that hold the separator, as a set.
GoodSamples(s) ==
    IF args.task = "tagging" THEN {}
    ELSE {Unwrap(ParseLine(args, SplitFile(fs, s)[i])) :
             i \in {j \in DOMAIN SplitFile(fs, s) : ~NoSeparator(SplitFile(fs, s)[j])}}

\* C7 as the specification states it: a line without separator is dropped,
\* read_dataset returns the samples of the other lines, and the build does
\* not fail in read_dataset of that split.
C7_LineDropped ==
    \A s \in 1..3 :
        HasBadLine(s) =>
            /\ ~(pc = "panic" /\ split = s /\ samples[s] = None)
            /\ samples[s] # None /\ args.task # "tagging" =>
                  Range(Unwrap(samples[s])) = GoodSamples(s)

\* read_dataset of a split whose file holds a line without separator has
\* not returned samples; the build is in or before that read, or has
\* panicked, and is not in the save phase.
C7_NoSamples ==
    \A s \in 1..3 :
        HasBadLine(s) =>
            /\ samples[s] = None
            /\ records[s] = None
            /\ split <= s
            /\ split = s => pc \in {"read", "panic"}
            /\ pc \notin {"save_vocab", "save", "done"}

\* read_dataset is about to map a line without separator: the next line of
\* the shared iterator, or for tagging some line of the file.
AtBadLine ==
    /\ pc = "read"
    /\ IF args.task = "tagging" THEN HasBadLine(split)
       ELSE /\ next_line <= Len(SplitFile(fs, split))
            /\ NoSeparator(SplitFile(fs, split)[next_line])

\* C7 amended: a line without separator is not dropped. read_dataset panics
\* on it: the step that maps the line is the panic of the build, and
\* read_dataset of that split never returns samples.
C7_LinePanics == [](C7_NoSamples) /\ [][AtBadLine => pc' = "panic"]_vars

\* The build has panicked while reading dev, whose file holds a line without
\* separator, after the train split was read and encoded.
C7_Witness ==
    /\ pc = "panic"
    /\ split = 2
    /\ HasBadLine(2)
    /\ samples[2] = None
    /\ records[1] # None

\* The rows of batch b of split s, as positions of the split's records.
BatchRows(s, b) ==
    {r \in DOMAIN Unwrap(records[s]) :
        (b - 1) * ChunkSize < r /\ r <= b * ChunkSize}

\* C8: the class column of every written batch holds the label id of the
\* record of its row, and every tag column the tag id of its position: no
\* id is stored modulo 256.
C8_LabelStored ==
    \A s \in 1..3 : \A b \in DOMAIN out[s].batches :
        \A r \in BatchRows(s, b) :
            LET row == r - (b - 1) * ChunkSize
                record == Unwrap(records[s])[r]
                len == args.sequence_length
            IN  IF args.task = "classifier"
                THEN out[s].batches[b][len + 1][row] = record.label_id
                ELSE IF args.task = "tagging"
                     THEN \A k \in 1..len :
                             out[s].batches[b][2 * k][row] = record.tag_ids[k]
                     ELSE out[s].batches[b][2 * len + 1][row] = record.label

\* The tokens of the training split that the stopwords file does not list.
TrainKeys == TrainTokens(args, Unwrap(samples[1])) \ LoadStopwords(args, fs)

\* The tokens of split s.
SplitTokens(s) ==
    UNION {Range(SampleTokens(s, i)[q]) :
              i \in DOMAIN Unwrap(samples[s]), q \in 1..(IF args.task = "similarity" THEN 2 ELSE 1)}

ClassIndexes(label) ==
    {k - 1 : k \in {j \in DOMAIN fs.class : fs.class[j] = label}}

\* The label of classification sample i of split s cannot be resolved: in
\* direct-id mode it is no integer string, in class-list mode no line of
\* class.txt.
Unresolvable(s, i) ==
    LET label == Unwrap(samples[s])[i].label
    IN  IF args.with_label_id THEN ParseUsize(label) = None
        ELSE ClassIndexes(label) = {}

\* Every classification record holds the id its sample's label resolves to:
\* the integer value of the label field in direct-id mode, the index of the
\* label's line of class.txt in class-list mode.
C12_RightId ==
    \A s \in 1..3 :
        args.task = "classifier" /\ records[s] # None =>
            \A i \in DOMAIN Unwrap(records[s]) :
                LET label == Unwrap(samples[s])[i].label
                    label_id == Unwrap(records[s])[i].label_id
                IN  IF args.with_label_id
                    THEN /\ ParseUsize(label) # None
                         /\ label_id = Unwrap(ParseUsize(label))
                    ELSE label_id \in ClassIndexes(label)

\* A classification sample whose label cannot be resolved has no record: its
\* place in the collected vector stays empty, build_dataset has not returned
\* for its split, and no record file is created.
C12_NoRecord ==
    \A s \in 1..3 :
        args.task = "classifier" /\ samples[s] # None =>
            \A i \in DOMAIN Unwrap(samples[s]) :
                Unresolvable(s, i) =>
                    /\ pc \in {"init", "build", "panic"}
                    /\ split = s
                    /\ i \in DOMAIN slots
                    /\ slots[i] = None
                    /\ records[s] = None
                    /\ \A t \in 1..3 : out[t] = [state |-> "absent", batches |-> <<>>]

\* build_dataset of a classification split has only samples with labels that
\* cannot be resolved left to encode.
OnlyUnresolvableLeft ==
    /\ args.task = "classifier"
    /\ pc = "build"
    /\ \E i \in DOMAIN slots : slots[i] = None
    /\ \A i \in DOMAIN slots : slots[i] = None => Unresolvable(split, i)

\* C12: label resolution gives the right id or fails, never a wrong id. A
\* record's label id is the index of its label's line of class.txt
\* (class-list mode) or the integer value of its label field (direct-id
\* mode); a sample whose label is no line of class.txt, or no integer
\* string, never gets a record, and the step that encodes it is the panic of
\* the build.
C12_LabelResolution ==
    [](C12_RightId /\ C12_NoRecord) /\ [][OnlyUnresolvableLeft => pc' = "panic"]_vars

\* Class-list mode: a train record holds the index 1 of the second line of
\* class.txt, and the build has panicked encoding a dev sample whose label
\* class.txt does not list.
C12_Witness ==
    /\ args.task = "classifier"
    /\ ~args.with_label_id
    /\ pc = "panic"
    /\ split = 2
    /\ samples[2] # None
    /\ \E i \in DOMAIN Unwrap(samples[2]) : Unresolvable(2, i)
    /\ \E i \in DOMAIN Unwrap(records[1]) :
          /\ Unwrap(records[1])[i].label_id = 1
          /\ Unwrap(samples[1])[i].label = fs.class[2]

\* C13: the record of a tagging sample of n <= sequence_length token/tag
\* pairs has exactly sequence_length token ids and as many tag ids, position
\* by position: up to n the vocabulary id of the token (the unknown id when
\* it is no key) and the tag-map id of the tag (0 when it is no key), from
\* n on 0 and 0.
C13_TagsAligned ==
    \A s \in 1..3 :
        args.task = "tagging" /\ records[s] # None =>
            \A i \in DOMAIN Unwrap(records[s]) :
                LET sample == Unwrap(samples[s])[i]
                    record == Unwrap(records[s])[i]
                    n == Len(sample.tokens)
                IN  n <= args.sequence_length =>
                        /\ Len(sample.tags) = n
                        /\ Len(record.token_ids) = args.sequence_length
                        /\ Len(record.tag_ids) = args.sequence_length
                        /\ \A k \in 1..args.sequence_length :
                              IF k <= n
                              THEN /\ record.token_ids[k] =
                                        IF sample.tokens[k] \in DOMAIN vocab
                                        THEN vocab[sample.tokens[k]]
                                        ELSE vocab[args.unknown]
                                   /\ record.tag_ids[k] =
                                        IF sample.tags[k] \in DOMAIN tags
                                        THEN tags[sample.tags[k]]
                                        ELSE 0
                              ELSE /\ record.token_ids[k] = 0
                                   /\ record.tag_ids[k] = 0

\* A train record of exactly sequence_length pairs whose last tag id is not
\* 0, and a dev record of fewer pairs whose tag the tag map does not hold.
C13_Witness ==
    /\ args.task = "tagging"
    /\ records[2] # None
    /\ \E i \in DOMAIN Unwrap(records[1]) :
          /\ Len(Unwrap(samples[1])[i].tokens) = args.sequence_length
          /\ Unwrap(records[1])[i].tag_ids[args.sequence_length] > 0
    /\ \E i \in DOMAIN Unwrap(records[2]) :
          /\ Len(Unwrap(samples[2])[i].tokens) \in 1..(args.sequence_length - 1)
          /\ Unwrap(samples[2])[i].tags[1] \notin DOMAIN tags
          /\ Unwrap(samples[2])[i].tokens[1] \notin DOMAIN vocab
          /\ Unwrap(records[2])[i].tag_ids = Zeros(args.sequence_length)

\* sep occurs somewhere in s.
Contains(s, sep) == \E i \in 1..Len(s) : MatchAt(s, sep, i)

\* The id of a similarity label field: 1 and 0 for true and false in boolean
\* mode, the integer otherwise; None when the field is neither.
SimilarityLabel(field) ==
    IF args.with_bool
    THEN IF Join(field) = "true" THEN Some(1)
         ELSE IF Join(field) = "false" THEN Some(0) ELSE None
    ELSE ParseU8(field)

\* The samples (text_a, text_b, label) that a line of the form
\* text_a + sent_sep + text_b + label_sep + label stands for, the texts and
\* the label field holding no separator; empty when the line has no such form.
LineSamples(line) ==
    {[sent_a |-> SubSeq(line, 1, p - 1),
      sent_b |-> SubSeq(line, p + Len(args.sent_sep), q - 1),
      label |-> Unwrap(SimilarityLabel(SubSeq(line, q + Len(args.label_sep), Len(line))))] :
        <<p, q>> \in
            {pq \in (1..Len(line)) \X (1..Len(line)) :
                /\ MatchAt(line, args.sent_sep, pq[1])
                /\ pq[1] + Len(args.sent_sep) <= pq[2]
                /\ MatchAt(line, args.label_sep, pq[2])
                /\ \A sep \in {args.sent_sep, args.label_sep} :
                      /\ ~Contains(SubSeq(line, 1, pq[1] - 1), sep)
                      /\ ~Contains(SubSeq(line, pq[1] + Len(args.sent_sep), pq[2] - 1), sep)
                      /\ ~Contains(SubSeq(line, pq[2] + Len(args.label_sep), Len(line)), sep)
                /\ SimilarityLabel(SubSeq(line, pq[2] + Len(args.label_sep), Len(line))) # None}}

\* C14: for every configuration of the two separators, reading a line
\* text_a + sent_sep + text_b + label_sep + label of a similarity file does
\* not fail, and the samples read_dataset returns hold (text_a, text_b, label).
C14_LineParsed ==
    \A s \in 1..3 :
        args.task = "similarity" =>
            \A i \in DOMAIN SplitFile(fs, s) :
                LineSamples(SplitFile(fs, s)[i]) # {} =>
                    /\ ~(pc = "panic" /\ split = s /\ samples[s] = None /\ next_line = i)
                    /\ samples[s] # None =>
                          LineSamples(SplitFile(fs, s)[i]) \subseteq Range(Unwrap(samples[s]))

\* The rows of a batch: row r holds entry r of every column.
RowsOf(batch) ==
    [r \in 1..Len(batch[1]) |-> [c \in DOMAIN batch |-> batch[c][r]]]

\* The row save_dataset writes for one record.
RecordRow(record) == RowsOf(Batch(args, <<record>>))[1]

\* The rows of the batches written to the file of split s, in write order.
WrittenRows(s) ==
    Flatten([b \in DOMAIN out[s].batches |-> RowsOf(out[s].batches[b])])

\* save_dataset of split s has returned.
Saved(s) == pc = "done" \/ (pc = "save" /\ split > s)

\* The batches written so far are the records in their order, ChunkSize to
\* a batch except for the batch that ends the records, and the container is
\* finalized exactly when save_dataset has returned, all records written.
C15_Batches ==
    \A s \in 1..3 :
        LET rs == IF records[s] = None THEN <<>> ELSE Unwrap(records[s])
            bs == out[s].batches
            rows == WrittenRows(s)
        IN  /\ Len(rows) <= Len(rs)
            /\ \A r \in DOMAIN rows : rows[r] = RecordRow(rs[r])
            /\ \A b \in DOMAIN bs :
                  Len(bs[b][1]) = IF b * ChunkSize <= Len(rs) THEN ChunkSize
                                  ELSE Len(rs) - (b - 1) * ChunkSize
            /\ \A b \in DOMAIN bs : Len(bs[b][1]) \in 1..ChunkSize
            /\ out[s].state = "absent" => bs = <<>>
            /\ out[s].state = "finished" => Len(rows) = Len(rs)
            /\ Saved(s) <=> out[s].state = "finished"

\* A step writes at most one batch, appended to an open container, and a
\* finalized container is never written or finalized again.
C15_Step ==
    \A s \in 1..3 :
        /\ out[s].state = "finished" => out'[s] = out[s]
        /\ out'[s].batches # out[s].batches =>
              /\ out[s].state = "open"
              /\ out'[s].state = "open"
              /\ Len(out'[s].batches) = Len(out[s].batches) + 1
              /\ SubSeq(out'[s].batches, 1, Len(out[s].batches)) = out[s].batches
        /\ out'[s].state = "finished" /\ out[s].state # "finished" =>
              /\ out[s].state = "open"
              /\ out'[s].batches = out[s].batches

\* C15: for record lists of every length save_dataset writes the batches one
\* after the other, ChunkSize records to a batch except possibly the last, so
\* that the rows of the batches in write order are the records in their
\* order, and it finalizes the container exactly once, after the last write.
C15_SaveInOrder == [](C15_Batches) /\ [][C15_Step]_vars

\* The build is done: the train file holds MaxChunks whole batches and a
\* last batch of one row, the dev file is finalized without any batch.
C15_Witness ==
    /\ pc = "done"
    /\ Len(out[1].batches) = MaxChunks + 1
    /\ Len(out[1].batches[MaxChunks + 1][1]) = 1
    /\ Len(Unwrap(records[1])) = MaxChunks * ChunkSize + 1
    /\ Unwrap(records[2]) = <<>>
    /\ out[2] = [state |-> "finished", batches |-> <<>>]

\* The lines at which a maximal run of non-blank lines starts.
RunStarts(lines) ==
    {i \in DOMAIN lines : lines[i] # <<>> /\ (i = 1 \/ lines[i - 1] = <<>>)}

\* The lines of the maximal run of non-blank lines that starts at line i.
RunAt(lines, i) ==
    SubSeq(lines, i,
           CHOOSE j \in i..Len(lines) :
               /\ \A k \in i..j : lines[k] # <<>>
               /\ j = Len(lines) \/ lines[j + 1] = <<>>)

\* C16: TaggingBuilder::read_dataset returns one sample for every maximal
\* run of non-blank lines of the file and no other, in the order of the
\* file, each with as many tags as tokens: sample g holds the tokens and
\* tags of the lines of run g, and no sample is empty.
C16_OneSamplePerGroup ==
    \A s \in 1..3 :
        args.task = "tagging" /\ samples[s] # None =>
            LET lines == SplitFile(fs, s)
                read == Unwrap(samples[s])
            IN  /\ Len(read) = Cardinality(RunStarts(lines))
                /\ \A g \in DOMAIN read :
                      /\ Len(read[g].tokens) = Len(read[g].tags)
                      /\ Len(read[g].tokens) > 0
                /\ \A i \in RunStarts(lines) :
                      LET g == Cardinality({j \in RunStarts(lines) : j <= i})
                      IN  /\ g \in DOMAIN read
                          /\ Some(read[g]) = TaggingGroup(args, RunAt(lines, i))

\* Nothing is written yet: no vocab.txt, no record file.
NothingWritten ==
    /\ vocab_file = {}
    /\ \A s \in 1..3 : out[s] = [state |-> "absent", batches |-> <<>>]

\* C17 as the specification states it: every split is serialized before the
\* next split is read, so that the train records are in their file when
\* build reads or encodes dev or test, or fails doing so.
C17_SplitBySplit ==
    \A s \in 1..2 :
        pc \in {"read", "init", "build", "panic"} /\ split > s =>
            out[s].state = "finished"

\* train, dev and test are read and encoded one after the other, each read
\* before it is encoded and encoded before the next is read; init has run
\* once the train split is read and before any sample is encoded; nothing is
\* written before the three splits are encoded, nor when build has failed;
\* vocab.txt and the record files of train, dev and test are written in
\* this order.
C17_Phases ==
    /\ \A s \in 1..3 : records[s] # None => samples[s] # None
    /\ \A s \in 1..2 : samples[s + 1] # None => records[s] # None
    /\ pc \in {"read", "init", "build"} =>
          /\ \A t \in 1..3 : t < split => records[t] # None
          /\ \A t \in 1..3 : t > split => samples[t] = None
          /\ records[split] = None
    /\ Inited => samples[1] # None
    /\ records[1] # None \/ (\E i \in DOMAIN slots : slots[i] # None) => Inited
    /\ ~NothingWritten =>
          /\ pc \in {"save", "done"}
          /\ \A s \in 1..3 : records[s] # None
    /\ pc = "panic" => NothingWritten
    /\ out[1].state # "absent" => vocab_file # {}
    /\ \A s \in 1..2 : out[s + 1].state # "absent" => out[s].state = "finished"
    /\ pc = "done" <=> \A s \in 1..3 : out[s].state = "finished"

\* C17 amended: build reads and encodes train, dev and test in this order,
\* builds the vocabulary and the label maps exactly once, after the train
\* split is read and before any sample is encoded, and serializes only after
\* the three splits are encoded: vocab.txt, then the train, dev and test
\* records. A failure while reading or encoding a split happens before
\* anything is written.
C17_EncodeAllThenSave ==
    [](C17_Phases)
        /\ [][Inited => vocab' = vocab /\ tags' = tags /\ classes' = classes]_vars

\* build has failed encoding dev after the train split was encoded: the
\* train records are in memory and in no file.
C17_Witness ==
    /\ pc = "panic"
    /\ split = 2
    /\ samples[2] # None
    /\ Inited
    /\ records[1] # None
    /\ Len(Unwrap(records[1])) > 0
    /\ NothingWritten

=============================================================================
